---- MODULE Spec2Model ----
(***************************************************************************)
(* Verification model of the e2e test helpers (playground/testUtils.ts)    *)
(* and of the Playwright test environment (PlaywrightEnvironment).         *)
(*                                                                         *)
(* JavaScript strings are modelled as sequences of one-character strings,  *)
(* so that substring search, regular-expression matching, decimal parsing  *)
(* and hexadecimal formatting are computed rather than assumed.            *)
(*                                                                         *)
(* Four specifications share the variables; each exercises one group of    *)
(* helpers and leaves the variables of the other groups untouched:         *)
(*   SpecColor  rgbToHex, getColor                                         *)
(*   SpecPoll   untilUpdated                                               *)
(*   SpecFile   editFile, addFile, removeFile, listAssets, findAssetFile   *)
(*   SpecEnv    PlaywrightEnvironment.setup / teardown                     *)
(***************************************************************************)
EXTENDS Integers, Sequences, FiniteSets, TLC

VARIABLES
  \* ---- color helpers ----
  computed,   \* the parts of the computed style string of the inspected element
  el,         \* argument of getColor: a selector, a handle, or a selector matching nothing
  cpc,        \* position of the color scenario
  hexRet,     \* value returned by the last rgbToHex call
  colorRet    \* value returned (or error raised) by the last getColor call

colorVars == <<computed, el, cpc, hexRet, colorRet>>

VARIABLES
  \* ---- untilUpdated ----
  isBuild,    \* !!process.env.VITE_TEST_BUILD
  ci,         \* truthiness of process.env.CI
  expected,   \* the expected substring
  runInBuild, \* the runInBuild argument
  upc,        \* position inside untilUpdated
  tries,      \* the loop counter
  actual,     \* result of the last getter invocation, after "?? ''"
  polls,      \* number of getter invocations
  sleeps,     \* number of completed timeout(50) sleeps
  asserts,    \* number of expect(actual).toMatch(expected) assertions performed
  outcome,    \* how the call ended
  misses,     \* history: getter results that did not contain expected
  firstMatch, \* history: the invocation that first returned a containing result
  threwAt     \* history: the invocation at which the getter threw

pollVars == <<isBuild, ci, expected, runInBuild, upc, tries, actual, polls,
              sleeps, asserts, outcome, misses, firstMatch, threwAt>>

VARIABLES
  \* ---- file helpers ----
  files,      \* the test directory: resolved path -> content, for the files that exist
  assets,     \* dist/assets in readdir order: <<name, content>> pairs
  lastOp      \* the last helper call: its arguments, the files before it, its result

fileVars == <<files, assets, lastOp>>

VARIABLES
  \* ---- PlaywrightEnvironment, one instance per test file ----
  wsFile,     \* content of <tmpdir>/jest_playwright_global_setup/wsEndpoint, or absent
  testPath,   \* this.testPath
  epc,        \* position of each instance in setup() / teardown()
  setupResult,\* how setup() ended
  browser,    \* this.browser: 0 (undefined) or the connection
  page,       \* this.global.page is bound
  warnPatched,\* this.global.console.warn is the filtering wrapper
  open,       \* the connections currently open at the browser server
  owner,      \* history: connection -> the instance that opened it
  closes      \* history: number of browser.close() calls made by each instance

envVars == <<wsFile, testPath, epc, setupResult, browser, page, warnPatched,
             open, owner, closes>>

vars == <<colorVars, pollVars, fileVars, envVars>>

None == "none"

\* the variables of a helper group that a specification does not exercise
ColorIdle ==
  /\ computed = [pre |-> <<>>, fn |-> <<"r", "g", "b">>, r |-> <<"0">>,
                 g |-> <<"0">>, b |-> <<"0">>, sep |-> <<",", " ">>, post |-> <<>>]
  /\ el = "handle"
  /\ cpc = "off"
  /\ hexRet = <<>>
  /\ colorRet = [kind |-> "none", v |-> <<>>]

PollIdle ==
  /\ ci = FALSE /\ expected = <<>> /\ runInBuild = FALSE
  /\ upc = "off" /\ tries = 0 /\ actual = <<>> /\ polls = 0 /\ sleeps = 0
  /\ asserts = 0 /\ outcome = None /\ misses = 0 /\ firstMatch = 0 /\ threwAt = 0

NoOp == [op |-> "none", target |-> <<>>, replacer |-> "none", runInBuild |-> FALSE,
         match |-> <<>>, isString |-> FALSE, before |-> <<>>, called |-> FALSE,
         threw |-> FALSE, ret |-> <<>>]

FileIdle ==
  /\ files = <<>>
  /\ assets = <<>>
  /\ lastOp = NoOp

EnvIdle ==
  /\ wsFile = "" /\ testPath = <<>> /\ epc = <<>> /\ setupResult = <<>>
  /\ browser = <<>> /\ page = <<>> /\ warnPatched = <<>>
  /\ open = {} /\ owner = <<>> /\ closes = <<>>

(***************************************************************************)
(* Bounds                                                                  *)
(***************************************************************************)
\* largest colour component value written into a computed style string
MaxComp == 256
\* longest file content, in characters
MaxLen == 2
\* largest number of files in dist/assets
MaxAssets == 2
\* number of test files, each run in its own environment instance
NumEnvs == 2

(***************************************************************************)
(* Strings                                                                 *)
(***************************************************************************)
Digits == <<"0", "1", "2", "3", "4", "5", "6", "7", "8", "9">>
HexDigits == <<"0", "1", "2", "3", "4", "5", "6", "7", "8", "9",
               "a", "b", "c", "d", "e", "f">>

IsDigit(ch) == \E k \in 1..10 : Digits[k] = ch
DigitVal(ch) == (CHOOSE k \in 1..10 : Digits[k] = ch) - 1
IsSpace(ch) == ch \in {" ", "\t"}

\* s has the literal lit starting at (1-based) position i
HasAt(s, i, lit) ==
  /\ i >= 1
  /\ i + Len(lit) - 1 <= Len(s)
  /\ SubSeq(s, i, i + Len(lit) - 1) = lit

(***************************************************************************)
(* css-color-names: name -> hex, in key order (excerpt with the shared     *)
(* hex values aqua/cyan, fuchsia/magenta, gray/grey).                      *)
(***************************************************************************)
colors ==
  << <<<<"a", "q", "u", "a">>, <<"#", "0", "0", "f", "f", "f", "f">> >>,
     <<<<"b", "l", "a", "c", "k">>, <<"#", "0", "0", "0", "0", "0", "0">> >>,
     <<<<"c", "y", "a", "n">>, <<"#", "0", "0", "f", "f", "f", "f">> >>,
     <<<<"f", "u", "c", "h", "s", "i", "a">>, <<"#", "f", "f", "0", "0", "f", "f">> >>,
     <<<<"g", "r", "a", "y">>, <<"#", "8", "0", "8", "0", "8", "0">> >>,
     <<<<"g", "r", "e", "y">>, <<"#", "8", "0", "8", "0", "8", "0">> >>,
     <<<<"m", "a", "g", "e", "n", "t", "a">>, <<"#", "f", "f", "0", "0", "f", "f">> >>,
     <<<<"r", "e", "d">>, <<"#", "f", "f", "0", "0", "0", "0">> >>,
     <<<<"w", "h", "i", "t", "e">>, <<"#", "f", "f", "f", "f", "f", "f">> >> >>

\* Object.keys(colors).forEach(color => hexToNameMap[colors[color]] = color)
RECURSIVE InvertFrom(_, _)
InvertFrom(i, m) ==
  IF i > Len(colors) THEN m
  ELSE InvertFrom(i + 1,
         [h \in (DOMAIN m) \cup {colors[i][2]} |->
            IF h = colors[i][2] THEN colors[i][1] ELSE m[h]])

\* variant: the table is filled as hexToNameMap[color] = colors[color]
RECURSIVE InvertByNameFrom(_, _)
InvertByNameFrom(i, m) ==
  IF i > Len(colors) THEN m
  ELSE InvertByNameFrom(i + 1,
         [h \in (DOMAIN m) \cup {colors[i][1]} |->
            IF h = colors[i][1] THEN colors[i][2] ELSE m[h]])

hexToNameMap_keyedByName == InvertByNameFrom(1, <<>>)

hexToNameMap == InvertFrom(1, <<>>)

\* c.toString(16)
RECURSIVE ToString16(_)
ToString16(c) ==
  IF c < 16 THEN <<HexDigits[c + 1]>>
  ELSE ToString16(c \div 16) \o <<HexDigits[(c % 16) + 1]>>

\* variant: no leading zero for a one-digit component
componentToHex_noPad(c) == ToString16(c)

componentToHex(c) ==
  LET hex == ToString16(c)
  IN IF Len(hex) = 1 THEN <<"0">> \o hex ELSE hex

\* parseInt(ds, 10) on a run of decimal digits
RECURSIVE ParseInt(_)
ParseInt(ds) ==
  IF Len(ds) = 0 THEN 0
  ELSE 10 * ParseInt(SubSeq(ds, 1, Len(ds) - 1)) + DigitVal(ds[Len(ds)])

\* \d+ and \s* are greedy; what follows them in the pattern is never a digit
\* or a space, so the greedy run is the only way to match.
RECURSIVE SkipDigits(_, _)
SkipDigits(s, i) ==
  IF i <= Len(s) /\ IsDigit(s[i]) THEN SkipDigits(s, i + 1) ELSE i

RECURSIVE SkipSpaces(_, _)
SkipSpaces(s, i) ==
  IF i <= Len(s) /\ IsSpace(s[i]) THEN SkipSpaces(s, i + 1) ELSE i

NoMatch == <<>>

\* /rgb\((\d+),\s*(\d+),\s*(\d+)\)/ tried at position i: the three captures
RgbMatchAt(s, i) ==
  LET r1 == i + 4
      r2 == SkipDigits(s, r1)
      g1 == SkipSpaces(s, r2 + 1)
      g2 == SkipDigits(s, g1)
      b1 == SkipSpaces(s, g2 + 1)
      b2 == SkipDigits(s, b1)
  IN IF /\ HasAt(s, i, <<"r", "g", "b", "(">>)
        /\ r2 > r1 /\ HasAt(s, r2, <<",">>)
        /\ g2 > g1 /\ HasAt(s, g2, <<",">>)
        /\ b2 > b1 /\ HasAt(s, b2, <<")">>)
     THEN <<SubSeq(s, r1, r2 - 1), SubSeq(s, g1, g2 - 1), SubSeq(s, b1, b2 - 1)>>
     ELSE NoMatch

\* rgb.match(/.../): the leftmost position at which the pattern matches
RgbMatch(s) ==
  LET hits == {i \in 1..Len(s) : RgbMatchAt(s, i) # NoMatch}
  IN IF hits = {} THEN NoMatch
     ELSE RgbMatchAt(s, CHOOSE i \in hits : \A j \in hits : i <= j)

Fallback == <<"#", "0", "0", "0", "0", "0", "0">>

rgbToHex(rgb) ==
  LET match == RgbMatch(rgb)
  IN IF match # NoMatch
     THEN <<"#">> \o componentToHex(ParseInt(match[1]))
                  \o componentToHex(ParseInt(match[2]))
                  \o componentToHex(ParseInt(match[3]))
     ELSE Fallback

(***************************************************************************)
(* untilUpdated                                                            *)
(***************************************************************************)
MaxTriesCI == 100
MaxTriesDefault == 50

maxTries == IF ci THEN MaxTriesCI ELSE MaxTriesDefault

\* actual.indexOf(expected): the least 0-based position, or -1
IndexOf(s, t) ==
  LET hits == {i \in 0..Len(s) : HasAt(s, i + 1, t)}
  IN IF hits = {} THEN -1 ELSE CHOOSE i \in hits : \A j \in hits : i <= j

\* expect(actual).toMatch(expected) with a string: passes iff actual includes it
ToMatch(s, t) == IndexOf(s, t) # -1

\* what one getter invocation produces: a string, null/undefined, or an exception
Null == [kind |-> "null", v |-> <<>>]
Throw == [kind |-> "throw", v |-> <<>>]
Str(v) == [kind |-> "string", v |-> v]
Expecteds == {<<"a", "b">>, <<"a">>, <<>>}
GetterResults == {Null, Str(<<>>), Str(<<"b">>), Str(<<"a">>), Str(<<"b", "a", "b">>)}

\* the claims' notion of "contains expected as a substring"
Includes(s, t) ==
  \E i \in 1..(Len(s) + 1) : \E j \in (i - 1)..Len(s) : SubSeq(s, i, j) = t

\* poll() ?? ''
OrEmpty(r) == IF r.kind = "null" THEN <<>> ELSE r.v

InitPoll ==
  /\ ColorIdle
  /\ FileIdle
  /\ EnvIdle
  /\ isBuild \in BOOLEAN /\ ci \in BOOLEAN /\ runInBuild \in BOOLEAN
  /\ expected \in Expecteds
  /\ upc = "idle" /\ tries = 0 /\ actual = <<>> /\ polls = 0 /\ sleeps = 0
  /\ asserts = 0 /\ outcome = None /\ misses = 0 /\ firstMatch = 0 /\ threwAt = 0

\* the call, up to the first suspension: the build-mode guard and "tries = 0"
UntilUpdatedCall ==
  /\ upc = "idle"
  /\ IF isBuild /\ ~runInBuild
     THEN upc' = "done" /\ outcome' = "returned"
     ELSE upc' = "poll" /\ UNCHANGED outcome
  /\ tries' = 0
  /\ UNCHANGED <<isBuild, ci, expected, runInBuild, actual, polls, sleeps,
                 asserts, misses, firstMatch, threwAt>>
  /\ UNCHANGED <<colorVars, fileVars, envVars>>

\* variant: a throwing getter is retried after the sleep
PollGetter_retryOnThrow ==
  /\ upc = "poll"
  /\ \E r \in GetterResults \cup {Throw} :
       /\ polls' = polls + 1
       /\ IF r.kind = "throw"
          THEN /\ upc' = "sleep"
               /\ threwAt' = polls + 1
               /\ UNCHANGED <<actual, misses, firstMatch, outcome>>
          ELSE /\ actual' = OrEmpty(r)
               /\ upc' = "check"
               /\ misses' = IF Includes(OrEmpty(r), expected) THEN misses ELSE misses + 1
               /\ firstMatch' = IF firstMatch = 0 /\ Includes(OrEmpty(r), expected)
                                THEN polls + 1 ELSE firstMatch
               /\ UNCHANGED <<threwAt, outcome>>
  /\ UNCHANGED <<isBuild, ci, expected, runInBuild, tries, sleeps, asserts>>
  /\ UNCHANGED <<colorVars, fileVars, envVars>>

\* await poll(): the getter returns a string or null, or throws (rejects)
PollGetter ==
  /\ upc = "poll"
  /\ \E r \in GetterResults \cup {Throw} :
       /\ polls' = polls + 1
       /\ IF r.kind = "throw"
          THEN /\ upc' = "done"
               /\ outcome' = "getterThrew"
               /\ threwAt' = polls + 1
               /\ UNCHANGED <<actual, misses, firstMatch>>
          ELSE /\ actual' = OrEmpty(r)
               /\ upc' = "check"
               /\ misses' = IF Includes(OrEmpty(r), expected) THEN misses ELSE misses + 1
               /\ firstMatch' = IF firstMatch = 0 /\ Includes(OrEmpty(r), expected)
                                THEN polls + 1 ELSE firstMatch
               /\ UNCHANGED <<threwAt, outcome>>
  /\ UNCHANGED <<isBuild, ci, expected, runInBuild, tries, sleeps, asserts>>
  /\ UNCHANGED <<colorVars, fileVars, envVars>>

\* the branch on the getter's result; the assertion ends the call either way
CheckWith(found, last) ==
  /\ upc = "check"
  /\ IF found \/ last
     THEN /\ asserts' = asserts + 1
          /\ outcome' = IF ToMatch(actual, expected) THEN "returned" ELSE "assertFailed"
          /\ upc' = "done"
     ELSE /\ upc' = "sleep"
          /\ UNCHANGED <<asserts, outcome>>
  /\ UNCHANGED <<isBuild, ci, expected, runInBuild, tries, actual, polls, sleeps,
                 misses, firstMatch, threwAt>>
  /\ UNCHANGED <<colorVars, fileVars, envVars>>

\* variant: the last attempt is not special
Check_noLastTry == CheckWith(IndexOf(actual, expected) > -1, FALSE)

\* variant: the result must equal expected
Check_equality == CheckWith(actual = expected, tries = maxTries - 1)

\* actual.indexOf(expected) > -1 || tries === maxTries - 1
Check == CheckWith(IndexOf(actual, expected) > -1, tries = maxTries - 1)

\* await timeout(50), then tries++ and the loop condition
Sleep ==
  /\ upc = "sleep"
  /\ sleeps' = sleeps + 1
  /\ tries' = tries + 1
  /\ IF tries + 1 < maxTries
     THEN upc' = "poll" /\ UNCHANGED outcome
     ELSE upc' = "done" /\ outcome' = "returned"
  /\ UNCHANGED <<isBuild, ci, expected, runInBuild, actual, polls, asserts,
                 misses, firstMatch, threwAt>>
  /\ UNCHANGED <<colorVars, fileVars, envVars>>

NextPoll == UntilUpdatedCall \/ PollGetter \/ Check \/ Sleep

SpecPoll == InitPoll /\ [][NextPoll]_vars

\* the event loop runs every continuation that is ready, and timers fire
FairSpecPoll == SpecPoll /\ WF_vars(NextPoll)

(***************************************************************************)
(* File helpers                                                            *)
(***************************************************************************)
\* path.resolve(testDir(), filename), relative to the test directory:
\* "." segments are dropped and ".." removes the segment before it
RECURSIVE ResolveFrom(_, _, _)
ResolveFrom(segs, i, acc) ==
  IF i > Len(segs) THEN acc
  ELSE IF segs[i] = "." THEN ResolveFrom(segs, i + 1, acc)
  ELSE IF segs[i] = ".."
       THEN ResolveFrom(segs, i + 1,
                        IF Len(acc) = 0 THEN acc ELSE SubSeq(acc, 1, Len(acc) - 1))
  ELSE ResolveFrom(segs, i + 1, Append(acc, segs[i]))

Resolve(filename) == ResolveFrom(filename, 1, <<>>)

Filenames == {<<"a.js">>, <<".", "src", "..", "a.js">>, <<"b.css">>}
Contents == {<<"a">>}
Replacers == {"identity", "constant", "append"}

\* the caller's replacer function
ApplyReplacer(rep, str) ==
  CASE rep = "identity" -> str
    [] rep = "constant" -> <<"x">>
    [] rep = "append"   -> str \o <<"!">>

AssetNames == {<<"a", "b", ".", "j">>, <<"a", "b", "x", "j">>,
               <<"x", "a", "b">>, <<"a", "b">>}
AssetContent(name) == <<"/", "/">> \o name

\* match arguments: a string, or the source of a RegExp
Matches == {<<"a", "b">>, <<"a", "b", ".", "j">>, <<"a", "b", "\\", ".", "j">>,
            <<"^", "a", "b">>, <<"b", "$">>, <<"z">>}

Listings ==
  {l \in UNION {[1..n -> AssetNames] : n \in 0..MaxAssets} :
     \A i, j \in DOMAIN l : i # j => l[i] # l[j]}

InitFile ==
  /\ ColorIdle
  /\ PollIdle
  /\ EnvIdle
  /\ isBuild \in BOOLEAN
  /\ files \in {[q \in S |-> <<"a">>] : S \in SUBSET {<<"a.js">>, <<"b.css">>}}
  /\ \E l \in Listings : assets = [i \in DOMAIN l |-> <<l[i], AssetContent(l[i])>>]
  /\ lastOp = NoOp

Exists(q) == q \in DOMAIN files

\* fs.writeFileSync(q, content)
WriteFile(q, content) ==
  [x \in (DOMAIN files) \cup {q} |-> IF x = q THEN content ELSE files[x]]

\* editFile(filename, replacer, runInBuild)
EditFileWith(filename, replacer, rib, skip) ==
  /\ Exists(Resolve(filename)) =>
       Len(ApplyReplacer(replacer, files[Resolve(filename)])) <= MaxLen
  /\ IF skip
     THEN /\ UNCHANGED files
          /\ lastOp' = [NoOp EXCEPT !.op = "editFile", !.target = Resolve(filename),
                          !.replacer = replacer, !.runInBuild = rib, !.before = files]
     ELSE IF ~Exists(Resolve(filename))
     THEN /\ UNCHANGED files
          /\ lastOp' = [NoOp EXCEPT !.op = "editFile", !.target = Resolve(filename),
                          !.replacer = replacer, !.runInBuild = rib, !.before = files,
                          !.threw = TRUE]
     ELSE /\ files' = WriteFile(Resolve(filename),
                                ApplyReplacer(replacer, files[Resolve(filename)]))
          /\ lastOp' = [NoOp EXCEPT !.op = "editFile", !.target = Resolve(filename),
                          !.replacer = replacer, !.runInBuild = rib, !.before = files,
                          !.called = TRUE]
  /\ UNCHANGED assets
  /\ UNCHANGED <<colorVars, pollVars, envVars>>

\* variant: build mode always skips
EditFile_skipInBuild(filename, replacer, rib) ==
  EditFileWith(filename, replacer, rib, isBuild)

\* if (isBuild && !runInBuild) return
EditFile(filename, replacer, rib) ==
  EditFileWith(filename, replacer, rib, isBuild /\ ~rib)

\* addFile(filename, content)
AddFile(filename, content) ==
  /\ files' = WriteFile(Resolve(filename), content)
  /\ lastOp' = [NoOp EXCEPT !.op = "addFile", !.target = Resolve(filename)]
  /\ UNCHANGED assets
  /\ UNCHANGED <<colorVars, pollVars, envVars>>

\* removeFile(filename): fs.unlinkSync throws when the file does not exist
RemoveFile(filename) ==
  /\ files' = [x \in (DOMAIN files) \ {Resolve(filename)} |-> files[x]]
  /\ lastOp' = [NoOp EXCEPT !.op = "removeFile", !.target = Resolve(filename),
                  !.threw = ~Exists(Resolve(filename))]
  /\ UNCHANGED assets
  /\ UNCHANGED <<colorVars, pollVars, envVars>>

\* readFile(filename)
ReadFile(filename) ==
  /\ lastOp' = [NoOp EXCEPT !.op = "readFile", !.target = Resolve(filename),
                  !.threw = ~Exists(Resolve(filename)),
                  !.ret = IF Exists(Resolve(filename))
                          THEN files[Resolve(filename)] ELSE <<>>]
  /\ UNCHANGED <<files, assets>>
  /\ UNCHANGED <<colorVars, pollVars, envVars>>

\* fs.readdirSync(assetsDir)
Readdir == [i \in DOMAIN assets |-> assets[i][1]]

\* listAssets()
ListAssets ==
  /\ lastOp' = [NoOp EXCEPT !.op = "listAssets", !.ret = Readdir]
  /\ UNCHANGED <<files, assets>>
  /\ UNCHANGED <<colorVars, pollVars, envVars>>

\* The regular expression built from a source text: "^" first and "$" last
\* anchor, "\c" is the character c, "." is any character, any other character
\* is itself.
RECURSIVE Atoms(_, _)
Atoms(src, i) ==
  IF i > Len(src) THEN <<>>
  ELSE IF src[i] = "\\" /\ i < Len(src)
       THEN <<[any |-> FALSE, c |-> src[i + 1]]>> \o Atoms(src, i + 2)
  ELSE IF src[i] = "."
       THEN <<[any |-> TRUE, c |-> "."]>> \o Atoms(src, i + 1)
  ELSE <<[any |-> FALSE, c |-> src[i]]>> \o Atoms(src, i + 1)

Bol(src) == Len(src) > 0 /\ src[1] = "^"
Eol(src) == Len(src) > 0 /\ src[Len(src)] = "$"
             /\ (Len(src) = 1 \/ src[Len(src) - 1] # "\\")
Body(src) ==
  SubSeq(src, IF Bol(src) THEN 2 ELSE 1, IF Eol(src) THEN Len(src) - 1 ELSE Len(src))

\* the atoms from the k-th on match name from position pos on
RECURSIVE AtomsMatchAt(_, _, _, _)
AtomsMatchAt(atoms, k, name, pos) ==
  IF k > Len(atoms) THEN pos
  ELSE IF pos <= Len(name) /\ (atoms[k].any \/ atoms[k].c = name[pos])
       THEN AtomsMatchAt(atoms, k + 1, name, pos + 1)
  ELSE 0

\* file.match(match): a string argument is converted with new RegExp(match)
RECURSIVE RegexSearch(_, _, _)
RegexSearch(src, name, pos) ==
  LET end == AtomsMatchAt(Atoms(Body(src), 1), 1, name, pos)
  IN IF pos > Len(name) + 1 THEN FALSE
     ELSE IF end # 0 /\ (Eol(src) => end = Len(name) + 1) THEN TRUE
     ELSE IF Bol(src) THEN FALSE
     ELSE RegexSearch(src, name, pos + 1)

\* variant: the file name must equal match
FileMatch_exactName(file, match) == file = match

FileMatch(file, match) == RegexSearch(match, file, 1)

\* files.find(file => file.match(match)): the index of the first hit, or 0
RECURSIVE FindFrom(_, _, _)
FindFrom(names, match, i) ==
  IF i > Len(names) THEN 0
  ELSE IF FileMatch(names[i], match) THEN i
  ELSE FindFrom(names, match, i + 1)

\* findAssetFile(match): match is a string or a RegExp
FindAssetFile(match, isString) ==
  /\ lastOp' = [NoOp EXCEPT !.op = "findAssetFile", !.match = match,
                  !.isString = isString,
                  !.ret = LET i == FindFrom(Readdir, match, 1)
                          IN IF i # 0 THEN assets[i][2] ELSE <<>>]
  /\ UNCHANGED <<files, assets>>
  /\ UNCHANGED <<colorVars, pollVars, envVars>>

NextFile ==
  \/ \E f \in Filenames, rep \in Replacers, rib \in BOOLEAN : EditFile(f, rep, rib)
  \/ \E f \in Filenames, c \in Contents : AddFile(f, c)
  \/ \E f \in Filenames : RemoveFile(f)
  \/ \E f \in Filenames : ReadFile(f)
  \/ ListAssets
  \/ \E m \in Matches, isString \in BOOLEAN : FindAssetFile(m, isString)

SpecFile == InitFile /\ [][NextFile]_vars

(***************************************************************************)
(* PlaywrightEnvironment                                                   *)
(***************************************************************************)
Envs == 1..NumEnvs

Absent == "ENOENT"
WsFiles == {Absent, "", "ws://127.0.0.1:9222/devtools"}

Playground == <<"p", "l", "a", "y", "g", "r", "o", "u", "n", "d">>
PlaygroundPaths == {<<"/">> \o Playground \o <<"/", "c", "s", "s">>}
OtherPaths == {<<"/", "p", "a", "c", "k", "a", "g", "e", "s", "/", "v", "i", "t", "e">>}
TestPaths == PlaygroundPaths \cup OtherPaths

InitEnv ==
  /\ ColorIdle
  /\ PollIdle
  /\ FileIdle
  /\ isBuild = FALSE
  /\ wsFile \in WsFiles
  /\ testPath \in [Envs -> TestPaths]
  /\ epc = [e \in Envs |-> "constructed"]
  /\ setupResult = [e \in Envs |-> None]
  /\ browser = [e \in Envs |-> 0]
  /\ page = [e \in Envs |-> FALSE]
  /\ warnPatched = [e \in Envs |-> FALSE]
  /\ open = {}
  /\ owner = <<>>
  /\ closes = [e \in Envs |-> 0]

\* setup() is called: super.setup() is started and awaited
SetupCall(e) ==
  /\ epc[e] = "constructed"
  /\ epc' = [epc EXCEPT ![e] = "baseSetup"]
  /\ UNCHANGED <<wsFile, testPath, setupResult, browser, page, warnPatched,
                 open, owner, closes>>
  /\ UNCHANGED <<colorVars, pollVars, fileVars>>

\* super.setup() settles; then the endpoint file is read and checked, the test
\* path is checked, and chromium.connect({ wsEndpoint }) is started
SetupReadWith(e, emptyCheck, pathCheck) ==
  /\ epc[e] = "baseSetup"
  /\ \E baseOk \in BOOLEAN :
       IF ~baseOk \/ wsFile = Absent \/ (emptyCheck /\ wsFile = "")
       THEN /\ epc' = [epc EXCEPT ![e] = "setupEnded"]
            /\ setupResult' = [setupResult EXCEPT ![e] =
                 IF ~baseOk THEN "baseThrew"
                 ELSE IF wsFile = Absent THEN "readThrew" ELSE "notFoundThrew"]
       ELSE IF pathCheck /\ IndexOf(testPath[e], Playground) = -1
       THEN /\ epc' = [epc EXCEPT ![e] = "setupEnded"]
            /\ setupResult' = [setupResult EXCEPT ![e] = "returned"]
       ELSE /\ epc' = [epc EXCEPT ![e] = "connecting"]
            /\ UNCHANGED setupResult
  /\ UNCHANGED <<wsFile, testPath, browser, page, warnPatched, open, owner, closes>>
  /\ UNCHANGED <<colorVars, pollVars, fileVars>>

\* variant: no playground check
SetupRead_noPathCheck(e) == SetupReadWith(e, TRUE, FALSE)

\* variant: an empty endpoint is accepted
SetupRead_noEmptyCheck(e) == SetupReadWith(e, FALSE, TRUE)

SetupRead(e) == SetupReadWith(e, TRUE, TRUE)

\* chromium.connect settles: this.browser is assigned and newPage() is started
SetupConnectedWith(e, store) ==
  /\ epc[e] = "connecting"
  /\ \E ok \in BOOLEAN :
       IF ok
       THEN LET c == Len(owner) + 1
            IN /\ open' = open \cup {c}
               /\ owner' = Append(owner, e)
               /\ browser' = [browser EXCEPT ![e] = IF store THEN c ELSE 0]
               /\ epc' = [epc EXCEPT ![e] = "newPage"]
               /\ UNCHANGED setupResult
       ELSE /\ epc' = [epc EXCEPT ![e] = "setupEnded"]
            /\ setupResult' = [setupResult EXCEPT ![e] = "connectThrew"]
            /\ UNCHANGED <<open, owner, browser>>
  /\ UNCHANGED <<wsFile, testPath, page, warnPatched, closes>>
  /\ UNCHANGED <<colorVars, pollVars, fileVars>>

\* variant: the browser is kept in the local constant only
SetupConnected_noStore(e) == SetupConnectedWith(e, FALSE)

SetupConnected(e) == SetupConnectedWith(e, TRUE)

\* browser.newPage() settles: the global page is bound, console.warn is wrapped
SetupPage(e) ==
  /\ epc[e] = "newPage"
  /\ \E ok \in BOOLEAN :
       IF ok
       THEN /\ page' = [page EXCEPT ![e] = TRUE]
            /\ warnPatched' = [warnPatched EXCEPT ![e] = TRUE]
            /\ setupResult' = [setupResult EXCEPT ![e] = "returned"]
       ELSE /\ setupResult' = [setupResult EXCEPT ![e] = "newPageThrew"]
            /\ UNCHANGED <<page, warnPatched>>
  /\ epc' = [epc EXCEPT ![e] = "setupEnded"]
  /\ UNCHANGED <<wsFile, testPath, browser, open, owner, closes>>
  /\ UNCHANGED <<colorVars, pollVars, fileVars>>

\* teardown() is called: browser.close() is started when a browser is stored,
\* otherwise super.teardown() is
TeardownCall(e) ==
  /\ epc[e] = "setupEnded"
  /\ IF browser[e] # 0
     THEN /\ epc' = [epc EXCEPT ![e] = "closing"]
          /\ closes' = [closes EXCEPT ![e] = closes[e] + 1]
     ELSE /\ epc' = [epc EXCEPT ![e] = "baseTeardown"]
          /\ UNCHANGED closes
  /\ UNCHANGED <<wsFile, testPath, setupResult, browser, page, warnPatched,
                 open, owner>>
  /\ UNCHANGED <<colorVars, pollVars, fileVars>>

\* browser.close() settles; super.teardown() is started
TeardownClosed(e) ==
  /\ epc[e] = "closing"
  /\ open' = open \ {browser[e]}
  /\ epc' = [epc EXCEPT ![e] = "baseTeardown"]
  /\ UNCHANGED <<wsFile, testPath, setupResult, browser, page, warnPatched,
                 owner, closes>>
  /\ UNCHANGED <<colorVars, pollVars, fileVars>>

\* super.teardown() settles
TeardownBase(e) ==
  /\ epc[e] = "baseTeardown"
  /\ epc' = [epc EXCEPT ![e] = "tornDown"]
  /\ UNCHANGED <<wsFile, testPath, setupResult, browser, page, warnPatched,
                 open, owner, closes>>
  /\ UNCHANGED <<colorVars, pollVars, fileVars>>

NextEnv ==
  \E e \in Envs :
    \/ SetupCall(e)
    \/ SetupRead(e)
    \/ SetupConnected(e)
    \/ SetupPage(e)
    \/ TeardownCall(e)
    \/ TeardownClosed(e)
    \/ TeardownBase(e)

SpecEnv == InitEnv /\ [][NextEnv]_vars

(***************************************************************************)
(* Computed style strings handed to the helpers                            *)
(***************************************************************************)
RECURSIVE ToDecimal(_)
ToDecimal(n) ==
  IF n < 10 THEN <<Digits[n + 1]>>
  ELSE ToDecimal(n \div 10) \o <<Digits[(n % 10) + 1]>>

CompVals == {0, 9, 128, 255, MaxComp}
CompStrs == {ToDecimal(n) : n \in CompVals} \cup {<<>>, <<"f", "f">>}
Prefixes == {<<>>, <<"x", " ">>}
Suffixes == {<<>>, <<" ", "!">>}
FnNames  == {<<"r", "g", "b">>, <<"r", "g", "b", "a">>, <<"h", "s", "l">>}
Seps     == {<<",", " ">>, <<",">>, <<" ", ",">>}

Computed == [pre : Prefixes, fn : FnNames, r : CompStrs, g : CompStrs,
             b : CompStrs, sep : Seps, post : Suffixes]

Render(c) ==
  c.pre \o c.fn \o <<"(">> \o c.r \o c.sep \o c.g \o c.sep \o c.b \o <<")">> \o c.post

Els == {"selector", "handle", "missing"}

InitColor ==
  /\ PollIdle
  /\ FileIdle
  /\ EnvIdle
  /\ isBuild = FALSE
  /\ computed \in Computed
  /\ el \in Els
  /\ cpc = "ready"
  /\ hexRet = <<>>
  /\ colorRet = [kind |-> "none", v |-> <<>>]

\* a direct call rgbToHex(rgb)
RgbToHex ==
  /\ cpc = "ready"
  /\ hexRet' = rgbToHex(Render(computed))
  /\ cpc' = "converted"
  /\ UNCHANGED <<computed, el, colorRet>>
  /\ UNCHANGED <<pollVars, fileVars, envVars>>

\* getColor(el): toEl, el.evaluate(getComputedStyle(el).color), the table lookup
\* hexToNameMap[rgbToHex(rgb)] ?? rgb
getColor(rgb) ==
  LET hex == rgbToHex(rgb)
  IN IF hex \in DOMAIN hexToNameMap THEN hexToNameMap[hex] ELSE rgb

GetColor ==
  /\ cpc \in {"ready", "converted"}
  /\ colorRet' = IF el = "missing"
                 THEN [kind |-> "threw", v |-> <<>>]
                 ELSE [kind |-> "value", v |-> getColor(Render(computed))]
  /\ cpc' = "done"
  /\ UNCHANGED <<computed, el, hexRet>>
  /\ UNCHANGED <<pollVars, fileVars, envVars>>

NextColor == RgbToHex \/ GetColor

SpecColor == InitColor /\ [][NextColor]_vars

(***************************************************************************)
(* Properties                                                              *)
(***************************************************************************)

\* ---- untilUpdated ----

Skipped == isBuild /\ ~runInBuild

\* every getter invocation so far returned a string without the expected text
NeverMatched == misses = polls

\* C1, as stated: whenever the getter never returns a matching string, the call
\* ends in a failing assertion after exactly maxTries invocations, for every
\* combination of the build-mode flag and runInBuild.
C1_Original ==
  (upc = "done" /\ NeverMatched) => (polls = maxTries /\ outcome = "assertFailed")

C1_Bounded ==
  /\ polls <= maxTries
  /\ sleeps < maxTries
  /\ (upc = "done" /\ NeverMatched) =>
       IF Skipped
       THEN outcome = "returned" /\ polls = 0 /\ sleeps = 0 /\ asserts = 0
       ELSE /\ polls = maxTries
            /\ sleeps = maxTries - 1
            /\ asserts = 1
            /\ outcome = "assertFailed"

\* C1, amended: the call always ends; unless it is skipped (build mode without
\* runInBuild, where it returns at once without invoking the getter), a getter
\* that never matches is invoked exactly maxTries times (50, or 100 under CI)
\* and the call ends in the failing substring assertion.
C1_NeverMatchingFails == []C1_Bounded /\ <>(upc = "done")

C1_Witness ==
  /\ upc = "done" /\ isBuild /\ runInBuild /\ ci
  /\ NeverMatched /\ polls = MaxTriesCI /\ outcome = "assertFailed"

\* C2: the call returns at the first invocation whose result contains expected;
\* the getter is not invoked again, no sleep follows, and the sleeps are the
\* non-matching invocations before it.
C2_ReturnsAtFirstMatch ==
  firstMatch # 0 =>
    /\ polls = firstMatch
    /\ sleeps = firstMatch - 1
    /\ misses = sleeps
    /\ upc \in {"check", "done"}
    /\ upc = "done" => (outcome = "returned" /\ asserts = 1)

C2_Witness ==
  upc = "done" /\ outcome = "returned" /\ firstMatch = 3 /\ sleeps = 2 /\ polls = 3

\* C7: when the getter throws at invocation k the call ends with that
\* exception: no further invocation, no further sleep, no assertion.
C7_GetterThrowPropagates ==
  threwAt # 0 =>
    /\ upc = "done"
    /\ outcome = "getterThrew"
    /\ polls = threwAt
    /\ sleeps = threwAt - 1
    /\ asserts = 0

C7_Witness == upc = "done" /\ threwAt = 2 /\ outcome = "getterThrew"

\* ---- PlaywrightEnvironment ----

AfterSetup == {"setupEnded", "closing", "baseTeardown", "tornDown"}
Outside(e) == testPath[e] \in OtherPaths
OpenedBy(e) == {c \in DOMAIN owner : owner[c] = e}
EndpointMissing == wsFile \in {Absent, ""}

\* C3, as stated: outside the playground group setup() returns normally once
\* the base setup is done, whatever the endpoint file holds, without a browser
\* connection or a global page.
C3_Original ==
  \A e \in Envs :
    (Outside(e) /\ epc[e] \in AfterSetup /\ setupResult[e] # "baseThrew") =>
      /\ setupResult[e] = "returned"
      /\ OpenedBy(e) = {}
      /\ ~page[e]

\* C3, amended: outside the playground group setup() never opens a browser
\* connection nor binds a global page, but it reads the endpoint file first:
\* after the base setup it returns normally exactly when the file is present
\* and non-empty, and throws otherwise.
C3_OutsidePlaygroundNoBrowser ==
  \A e \in Envs :
    Outside(e) =>
      /\ OpenedBy(e) = {}
      /\ browser[e] = 0
      /\ ~page[e]
      /\ epc[e] \notin {"connecting", "newPage", "closing"}
      /\ (epc[e] \in AfterSetup /\ setupResult[e] # "baseThrew") =>
           IF EndpointMissing
           THEN setupResult[e] \in {"readThrew", "notFoundThrew"}
           ELSE setupResult[e] = "returned"

C3_Witness ==
  \E e \in Envs :
    /\ Outside(e) /\ epc[e] = "setupEnded" /\ setupResult[e] = "returned"
    /\ \E d \in Envs : ~Outside(d) /\ OpenedBy(d) # {}

\* C4: with the endpoint file absent or empty setup() throws, no connection is
\* opened, no browser is stored, no page is bound, and teardown() closes nothing.
C4_MissingEndpointThrows ==
  EndpointMissing =>
    /\ open = {}
    /\ owner = <<>>
    /\ \A e \in Envs :
         /\ epc[e] \in AfterSetup =>
              setupResult[e] \in {"baseThrew", "readThrew", "notFoundThrew"}
         /\ browser[e] = 0
         /\ ~page[e]
         /\ closes[e] = 0

C4_Witness ==
  /\ wsFile = ""
  /\ \E e \in Envs :
       ~Outside(e) /\ epc[e] = "tornDown" /\ setupResult[e] = "notFoundThrew"

C5_Owned ==
  \A e \in Envs :
    /\ Cardinality(OpenedBy(e)) <= 1
    /\ epc[e] \in {"constructed", "baseSetup", "connecting"} => OpenedBy(e) = {}
    /\ epc[e] \in {"baseTeardown", "tornDown"} => OpenedBy(e) \cap open = {}
    /\ closes[e] <= Cardinality(OpenedBy(e))
    /\ browser[e] # 0 => OpenedBy(e) = {browser[e]}

\* a connection is opened only by the step of setup() in which connect settles
C5_OpenedInSetup ==
  \A e \in Envs :
    (\E c \in DOMAIN owner' : c \notin DOMAIN owner /\ owner'[c] = e) =>
      (epc[e] = "connecting" /\ epc'[e] = "newPage")

\* C5: an instance opens at most one connection, only during setup(); teardown()
\* closes it (also when newPage failed) before the base teardown starts, and
\* closes nothing when none was opened.
C5_ConnectionLifecycle == []C5_Owned /\ [][C5_OpenedInSetup]_vars

C5_Witness ==
  \E e \in Envs :
    /\ epc[e] = "tornDown" /\ setupResult[e] = "newPageThrew"
    /\ closes[e] = 1 /\ OpenedBy(e) # {} /\ OpenedBy(e) \cap open = {}

\* ---- file helpers ----

\* C6: in build mode without runInBuild editFile changes no file and does not
\* call the replacer; otherwise the target holds replacer(previous content)
\* and every other file is unchanged.
C6_EditFileFrame ==
  lastOp.op = "editFile" =>
    IF isBuild /\ ~lastOp.runInBuild
    THEN files = lastOp.before /\ ~lastOp.called /\ ~lastOp.threw
    ELSE IF lastOp.target \in DOMAIN lastOp.before
    THEN /\ lastOp.called
         /\ DOMAIN files = DOMAIN lastOp.before
         /\ files[lastOp.target] =
              ApplyReplacer(lastOp.replacer, lastOp.before[lastOp.target])
         /\ \A q \in DOMAIN files : q # lastOp.target => files[q] = lastOp.before[q]
    ELSE files = lastOp.before /\ lastOp.threw /\ ~lastOp.called

C6_Witness ==
  /\ lastOp.op = "editFile" /\ isBuild /\ lastOp.runInBuild
  /\ lastOp.replacer = "append" /\ lastOp.called
  /\ Cardinality(DOMAIN files) = 2
  /\ files[lastOp.target] # lastOp.before[lastOp.target]

Names == {assets[i][1] : i \in DOMAIN assets}

\* the pattern of source src occurs in name: some stretch of name has the
\* pattern's characters one for one, at the ends the anchors ask for
PatternHolds(src, name) ==
  LET atoms == Atoms(Body(src), 1)
  IN \E i \in 1..(Len(name) + 1) :
       LET j == i + Len(atoms) - 1
       IN /\ j <= Len(name)
          /\ \A k \in 1..Len(atoms) : atoms[k].any \/ atoms[k].c = name[i + k - 1]
          /\ Bol(src) => i = 1
          /\ Eol(src) => j = Len(name)

FirstWith(P(_)) ==
  IF \E i \in DOMAIN assets : P(assets[i][1])
  THEN assets[CHOOSE i \in DOMAIN assets :
                /\ P(assets[i][1])
                /\ \A j \in 1..(i - 1) : ~P(assets[j][1])][2]
  ELSE <<>>

ListedExactly ==
  lastOp.op = "listAssets" =>
    /\ {lastOp.ret[i] : i \in DOMAIN lastOp.ret} = Names
    /\ Len(lastOp.ret) = Cardinality(Names)

\* C8, as stated: a string argument selects only the file of exactly that name.
C8_Original ==
  /\ ListedExactly
  /\ lastOp.op = "findAssetFile" =>
       IF lastOp.isString
       THEN LET IsIt(name) == name = lastOp.match IN lastOp.ret = FirstWith(IsIt)
       ELSE LET Has(name) == PatternHolds(lastOp.match, name)
            IN lastOp.ret = FirstWith(Has)

PlainText(src) == \A i \in DOMAIN src : src[i] \notin {".", "^", "$", "\\"}

\* C8, amended: listAssets returns exactly the names present; findAssetFile
\* treats a string argument as a pattern too, so it returns the content of the
\* first listed file whose name contains a match of the pattern (for a string
\* without special characters: whose name contains the string), else "".
C8_FindAssetFile ==
  /\ ListedExactly
  /\ lastOp.op = "findAssetFile" =>
       /\ LET Has(name) == PatternHolds(lastOp.match, name)
          IN lastOp.ret = FirstWith(Has)
       /\ PlainText(lastOp.match) =>
            LET Contains(name) == Includes(name, lastOp.match)
            IN lastOp.ret = FirstWith(Contains)

C8_Witness ==
  /\ lastOp.op = "findAssetFile" /\ lastOp.isString
  /\ lastOp.match = <<"a", "b">>
  /\ Len(assets) = 2
  /\ assets[2][1] = <<"a", "b">>
  /\ lastOp.ret = AssetContent(<<"a", "b", ".", "j">>)

\* ---- color helpers ----

Rgb == <<"r", "g", "b">>
DigitStrs == {ToDecimal(n) : n \in CompVals}
ValueOf(comp) == CHOOSE n \in CompVals : ToDecimal(n) = comp

\* the computed style contains rgb(R,G,B), each comma followed by spaces or not
Matchable(c) ==
  /\ c.fn = Rgb
  /\ c.sep \in {<<",", " ">>, <<",">>}
  /\ {c.r, c.g, c.b} \subseteq DigitStrs

InByteRange(c) == \A comp \in {c.r, c.g, c.b} : ValueOf(comp) <= 255

\* the computed style is rgb(R, G, B) with R, G, B in 0..255 and nothing else
LiteralForm(c) ==
  /\ Matchable(c) /\ InByteRange(c)
  /\ c.pre = <<>> /\ c.post = <<>>

Hex2(n) == <<HexDigits[(n \div 16) + 1], HexDigits[(n % 16) + 1]>>
HexOf(n) == IF n <= 255 THEN Hex2(n) ELSE <<HexDigits[(n \div 256) + 1]>> \o Hex2(n % 256)

ExpectedHex(c) ==
  IF Matchable(c)
  THEN <<"#">> \o HexOf(ValueOf(c.r)) \o HexOf(ValueOf(c.g)) \o HexOf(ValueOf(c.b))
  ELSE Fallback

TableHexes == {colors[i][2] : i \in DOMAIN colors}

\* C9: getColor returns a name of the converted hex whenever the inverted table
\* has that hex, and the raw computed value otherwise; the inverted table has
\* exactly the hexes of the color table, each with one of its names.
C9_GetColorNames ==
  /\ DOMAIN hexToNameMap = TableHexes
  /\ \A h \in DOMAIN hexToNameMap :
       \E i \in DOMAIN colors : colors[i] = <<hexToNameMap[h], h>>
  /\ (cpc = "done" /\ el # "missing") =>
       /\ colorRet.kind = "value"
       /\ IF ExpectedHex(computed) \in TableHexes
          THEN /\ \E i \in DOMAIN colors :
                    colors[i] = <<colorRet.v, ExpectedHex(computed)>>
               /\ colorRet.v # ExpectedHex(computed)
          ELSE colorRet.v = Render(computed)

C9_Witness ==
  /\ cpc = "done" /\ el = "selector" /\ LiteralForm(computed)
  /\ computed.r = <<"0">> /\ computed.g = <<"2", "5", "5">> /\ computed.b = <<"2", "5", "5">>
  /\ colorRet.v = <<"c", "y", "a", "n">>

\* C10, as stated: two-digit hex of each component for rgb(R, G, B) with
\* components in 0..255, and the fallback for every other input.
C10_Original ==
  cpc = "converted" =>
    IF LiteralForm(computed)
    THEN /\ hexRet = <<"#">> \o Hex2(ValueOf(computed.r)) \o Hex2(ValueOf(computed.g))
                             \o Hex2(ValueOf(computed.b))
         /\ Len(hexRet) = 7
    ELSE hexRet = Fallback

\* C10, amended: the first rgb(R,G,B) found anywhere in the input is converted,
\* each component to at least two lowercase hex digits (7 characters in all
\* when the components are in 0..255, more when one exceeds 255); the fallback
\* is returned only when the input contains no such text.
C10_RgbToHex ==
  cpc = "converted" =>
    /\ hexRet = ExpectedHex(computed)
    /\ LiteralForm(computed) => Len(hexRet) = 7

C10_Witness ==
  /\ cpc = "converted" /\ LiteralForm(computed)
  /\ hexRet = <<"#", "f", "f", "0", "9", "8", "0">>
====
